---- MODULE Spec2Model ----
(***************************************************************************)
(* Kerberos authentication plugins of the connector                       *)
(* (lib/mysql/connector/plugins/authentication_kerberos_client.py):       *)
(* MySQLKerberosAuthPlugin (GSSAPI) and MySQLSSPIKerberosAuthPlugin,       *)
(* with DbDoc (lib/mysqlx/dbdoc.py) and get_mysql_exception                *)
(* (lib/mysqlx/errors.py) of the X DevAPI connector.                       *)
(*                                                                         *)
(* Python values are modelled as follows.                                  *)
(*   bytes          a sequence of integers 0..255                          *)
(*   str            a sequence of code points                              *)
(*   Optional[x]    a record [isNone, b]; None is [isNone |-> TRUE]        *)
(*   an exception   its class name in a field exc, "none" when the call    *)
(*                  returned                                               *)
(***************************************************************************)
EXTENDS Integers, Sequences, FiniteSets, TLC

VARIABLES
    plug,        \* plugin instances: id -> [cls, username, password, context, clientauth]
    cache,       \* the krb5 credential cache of the process
    krb5ccname,  \* os.environ["KRB5CCNAME"]: "unset" or "empty" (set to "")
    rounds,      \* the provider's script: the step on which negotiation completes
    last,        \* id -> the last call made on that plugin, its outcome, its provider calls
    codec,       \* a packet handed to _parse_auth_data alone, and what it returned
    doc,         \* a mysqlx DbDoc: its __dict__, and the last call made on it
    exn          \* a call of mysqlx get_mysql_exception and the exception it returned

vars == <<plug, cache, krb5ccname, rounds, last, codec, doc, exn>>

\* ------------------------------------------------------------------ bounds

\* The provider completes on step 1..MaxRounds.
MaxRounds == 3

\* Longest spn and realm (in code points) of the packets given to the codec alone.
MaxStrLen == 2

\* ---------------------------------------------------------- Python values

None == [isNone |-> TRUE, b |-> <<>>]

Some(x) == [isNone |-> FALSE, b |-> x]

Min(a, b) == IF a < b THEN a ELSE b

\* s[:n]
Take(s, n) == SubSeq(s, 1, Min(n, Len(s)))

\* s[n:]
Drop(s, n) == SubSeq(s, Min(n, Len(s)) + 1, Len(s))

\* struct.pack("<H", n)
PackH(n) == << n % 256, (n \div 256) % 256 >>

\* str.encode(): UTF-8 of code points below U+0800.
RECURSIVE Utf8Encode(_)
Utf8Encode(s) ==
    IF s = <<>> THEN <<>>
    ELSE LET c == Head(s) IN
         (IF c < 128 THEN <<c>> ELSE << 192 + (c \div 64), 128 + (c % 64) >>)
             \o Utf8Encode(Tail(s))

\* bytes.decode(): UTF-8, one- and two-byte sequences; any other lead byte, a
\* missing or wrong continuation byte, or an overlong form is UnicodeDecodeError.
RECURSIVE Utf8Decode(_)
Utf8Decode(bs) ==
    IF bs = <<>> THEN [ok |-> TRUE, s |-> <<>>]
    ELSE LET b1 == Head(bs) IN
         IF b1 < 128
         THEN LET r == Utf8Decode(Tail(bs)) IN
              [ok |-> r.ok, s |-> IF r.ok THEN <<b1>> \o r.s ELSE <<>>]
         ELSE IF b1 >= 194 /\ b1 <= 223 /\ Len(bs) >= 2
                 /\ bs[2] >= 128 /\ bs[2] <= 191
         THEN LET r == Utf8Decode(Tail(Tail(bs))) IN
              [ok |-> r.ok,
               s  |-> IF r.ok THEN << (b1 - 192) * 64 + (bs[2] - 128) >> \o r.s
                      ELSE <<>>]
         ELSE [ok |-> FALSE, s |-> <<>>]

\* ------------------------------------------------------------ packet codec

\* struct.unpack("<H", b): struct.error unless b holds exactly two bytes.
UnpackH(b) ==
    IF Len(b) = 2 THEN [ok |-> TRUE, v |-> b[1] + 256 * b[2]]
    ELSE [ok |-> FALSE, v |-> 0]

\* struct.unpack(f"<{n}s", b): struct.error unless b holds exactly n bytes.
UnpackSLenient(n, b) ==
    IF Len(b) <= n THEN [ok |-> TRUE, v |-> b] ELSE [ok |-> FALSE, v |-> <<>>]

UnpackS(n, b) ==
    IF Len(b) = n THEN [ok |-> TRUE, v |-> b] ELSE [ok |-> FALSE, v |-> <<>>]

ParseFail(e) == [exc |-> e, spn |-> <<>>, realm |-> <<>>]

\* The slice handed to the realm's unpack: packet[2:].
RealmSlice(rest, n) == Drop(rest, 2)

\* The slice handed to the spn's unpack: packet[:spn_len].
SpnSliceWhole(body, n) == body

SpnSlice(body, n) == Take(body, n)

\* _parse_auth_data(packet)
ParseAuthData(packet) ==
    LET spn_len == UnpackH(Take(packet, 2))
        body    == Drop(packet, 2)
    IN  IF ~spn_len.ok THEN ParseFail("struct.error")
        ELSE
        LET spn  == UnpackS(spn_len.v, SpnSlice(body, spn_len.v))
            rest == Drop(body, spn_len.v)
        IN  IF ~spn.ok THEN ParseFail("struct.error")
            ELSE
            LET realm_len == UnpackH(Take(rest, 2)) IN
            IF ~realm_len.ok THEN ParseFail("struct.error")
            ELSE
            LET realm == UnpackS(realm_len.v, RealmSlice(rest, realm_len.v)) IN
            IF ~realm.ok THEN ParseFail("struct.error")
            ELSE
            LET s == Utf8Decode(spn.v)
                r == Utf8Decode(realm.v)
            IN  IF ~s.ok \/ ~r.ok THEN ParseFail("UnicodeDecodeError")
                ELSE [exc |-> "none", spn |-> s.s, realm |-> r.s]

\* The packet the server builds for (spn, realm): lengths in bytes, little-endian.
EncodeAuthData(spn, realm) ==
    LET s == Utf8Encode(spn)
        r == Utf8Encode(realm)
    IN  PackH(Len(s)) \o s \o PackH(Len(r)) \o r

\* ------------------------------------------------------- provider and state

\* Strings of the model, as code points: "a", "b", "X", "Y", "s"; "@" is 64.
UserA == <<97>>

UserB == <<98>>

RealmX == <<88>>

RealmY == <<89>>

SpnS == <<115>>

\* f"{user}@{realm}"
Upn(user, realm) == user \o <<64>> \o realm

\* self.context / self.clientauth before any assignment.
NoContext ==
    [set |-> FALSE, steps |-> 0, complete |-> FALSE, spn |-> None,
     creds |-> [src |-> "none", upn |-> <<>>]]

\* gssapi.SecurityContext(name, creds, flags, usage) / sspi.ClientAuth(...): a
\* fresh context, no step made.
NewContext(spn, creds) ==
    [set |-> TRUE, steps |-> 0, complete |-> FALSE, spn |-> spn, creds |-> creds]

\* One call to the security provider: its name, its argument, whether the context
\* it was made on was complete, and the encrypt flag of a wrap.
Call(op, arg, est, encrypt) ==
    [op |-> op, arg |-> arg, est |-> est, encrypt |-> encrypt]

NoRet == [kind |-> "none", val |-> None, complete |-> FALSE]

\* What a call on a plugin produced: the exception raised ("none": it returned),
\* the value returned, the provider calls made, in order.
Outcome(exc, ret, calls) == [exc |-> exc, ret |-> ret, calls |-> calls]

Raise(exc, calls) == Outcome(exc, NoRet, calls)

\* The token the provider produces on its n-th step.
Token(n) == Some(<<100 + n>>)

\* context.step(token) / clientauth.authorize(token) of the scripted provider:
\* the step fails (ok = FALSE), or advances the negotiation, which completes on
\* step k. A step on a complete context leaves it complete.
ProviderStep(ctx, k, ok) ==
    IF ~ok THEN [ok |-> FALSE, ctx |-> ctx, token |-> None]
    ELSE LET n == IF ctx.complete THEN ctx.steps ELSE ctx.steps + 1 IN
         [ok    |-> TRUE,
          ctx   |-> [ctx EXCEPT !.steps = n, !.complete = (n >= k)],
          token |-> Token(n)]

\* Server messages with a valid integrity code, and one without.
GoodMessages == { <<10>>, <<11>> }

TamperedMessage == <<66>>

\* context.unwrap(message): BadMICError on a bad integrity code.
ProviderUnwrap(message) == message \in GoodMessages

\* context.wrap(payload, encrypt).message: a token that carries the payload
\* behind a flags byte (4: integrity only, 6: sealed).
ProviderWrap(payload, encrypt) == << IF encrypt THEN 6 ELSE 4 >> \o payload

\* ------------------------------------------------------ credential resolver

NoCreds == [src |-> "none", upn |-> <<>>]

\* What a credential operation produced: the exception, the credentials, the
\* cache afterwards, the provider calls made.
CredResult(exc, creds, cch, calls) ==
    [exc |-> exc, creds |-> creds, cache |-> cch, calls |-> calls]

\* get_store(): InterfaceError when KRB5CCNAME is set to the empty string.
GetStoreFails(env) == env = "empty"

\* _acquire_cred_with_password(upn). acqOk: whether the provider accepts the
\* password. get_store() is an argument of the store_cred_into call, so it is
\* evaluated after the credentials were acquired; it is logged with the
\* provider calls.
AcquireCredWithPasswordNoRaise(upn, cch, env, acqOk) ==
    LET acquire == Call("acquire_cred_with_password", Some(upn), FALSE, FALSE) IN
    CredResult("none", NoCreds, cch, <<acquire>>)

AcquireCredWithPassword(upn, cch, env, acqOk) ==
    LET acquire   == Call("acquire_cred_with_password", Some(upn), FALSE, FALSE)
        get_store == Call("get_store", None, FALSE, FALSE)
        store     == Call("store_cred_into", Some(upn), FALSE, FALSE)
    IN  IF ~acqOk THEN CredResult("ProgrammingError", NoCreds, cch, <<acquire>>)
        ELSE IF GetStoreFails(env)
        THEN CredResult("InterfaceError", NoCreds, cch, <<acquire, get_store>>)
        ELSE CredResult("none", [src |-> "password", upn |-> upn],
                        [status |-> "valid", upn |-> upn],
                        <<acquire, get_store, store>>)

\* s.find("@"): the index (from 1) of the first "@", 0 when there is none.
FindAt(s) ==
    IF \E i \in 1..Len(s) : s[i] = 64
    THEN CHOOSE i \in 1..Len(s) : s[i] = 64 /\ \A j \in 1..(i - 1) : s[j] # 64
    ELSE 0

\* self._password is not None
HasPasswordAlways(self) == TRUE

HasPassword(self) == self.password # "None"

\* Lines 187-231 of auth_response: the credentials to initiate the context with.
ResolveCredentials(self, realm, cch, env, acqOk) ==
    LET named  == self.username # <<>>
        lookup == Call("Credentials", None, FALSE, FALSE)
    IN  IF cch.status = "valid"
        THEN
            LET creds_upn   == cch.upn
                at          == FindAt(creds_upn)
                creds_user  == IF at > 0 THEN Take(creds_upn, at - 1) ELSE creds_upn
                creds_realm == IF at > 0 THEN Drop(creds_upn, at) ELSE <<>>
                upn   == IF named THEN Upn(self.username, realm) ELSE creds_upn
                found == CredResult("none", [src |-> "cache", upn |-> creds_upn],
                                    cch, <<lookup>>)
                first ==
                    IF named /\ self.username # creds_user /\ HasPassword(self)
                    THEN LET a == AcquireCredWithPassword(upn, cch, env, acqOk) IN
                         [a EXCEPT !.calls = <<lookup>> \o a.calls]
                    ELSE found
            IN  IF first.exc # "none" THEN first
                ELSE IF creds_realm # <<>> /\ creds_realm # realm /\ HasPassword(self)
                THEN LET a == AcquireCredWithPassword(upn, first.cache, env, acqOk) IN
                     [a EXCEPT !.calls = first.calls \o a.calls]
                ELSE first
        ELSE
            \* ExpiredCredentialsError, or another GSSError: upn is still the
            \* one of line 187.
            IF named /\ HasPassword(self)
            THEN LET a == AcquireCredWithPassword(Upn(self.username, realm), cch,
                                                  env, acqOk) IN
                 [a EXCEPT !.calls = <<lookup>> \o a.calls]
            ELSE CredResult("InterfaceError", NoCreds, cch, <<lookup>>)

\* ------------------------------------------------------------- handlers
\* Each handler gives [self, cache, out]: the plugin and the cache afterwards,
\* and the outcome of the call.

Handled(self, cch, out) == [self |-> self, cache |-> cch, out |-> out]

\* if auth_data: spn, realm = self._parse_auth_data(auth_data)
\* (lines 175-182 and 370-377): struct.error becomes InterruptedError.
NoChallenge == [exc |-> "none", isNone |-> TRUE, spn |-> <<>>, realm |-> <<>>]

Parsed(b) ==
    LET r == ParseAuthData(b) IN
    [exc    |-> IF r.exc = "struct.error" THEN "InterruptedError" ELSE r.exc,
     isNone |-> FALSE, spn |-> r.spn, realm |-> r.realm]

ParseChallengeIfNotNone(auth_data) ==
    IF auth_data.isNone THEN NoChallenge ELSE Parsed(auth_data.b)

ParseChallenge(auth_data) ==
    IF auth_data.isNone \/ auth_data.b = <<>> THEN NoChallenge
    ELSE Parsed(auth_data.b)

\* self.prepare_password()
PasswordResponse == [kind |-> "password", val |-> None, complete |-> FALSE]

TokenRet(tok) == [kind |-> "token", val |-> tok, complete |-> FALSE]

\* MySQLKerberosAuthPlugin.auth_response(auth_data)
GssAuthResponse(self, auth_data, cch, env, k, acqOk, stepOk) ==
    LET ch == ParseChallenge(auth_data) IN
    IF ch.exc # "none" THEN Handled(self, cch, Raise(ch.exc, <<>>))
    ELSE IF ch.isNone
    THEN Handled(self, cch, Outcome("none", PasswordResponse, <<>>))
    ELSE
    LET res == ResolveCredentials(self, ch.realm, cch, env, acqOk) IN
    IF res.exc # "none" THEN Handled(self, res.cache, Raise(res.exc, res.calls))
    ELSE
    LET ctx   == NewContext(Some(ch.spn), res.creds)
        st    == ProviderStep(ctx, k, stepOk)
        calls == res.calls
                 \o << Call("SecurityContext", Some(ch.spn), FALSE, FALSE),
                       Call("step", None, ctx.complete, FALSE) >>
    IN  IF ~st.ok
        THEN Handled([self EXCEPT !.context = ctx], res.cache,
                     Raise("InterfaceError", calls))
        ELSE Handled([self EXCEPT !.context = st.ctx], res.cache,
                     Outcome("none", TokenRet(st.token), calls))

\* self._username and self._password
HasAuthInfo(self) == self.username # <<>> /\ self.password \notin {"None", ""}

\* MySQLSSPIKerberosAuthPlugin.auth_response(auth_data), pywin32 installed.
SspiAuthResponse(self, auth_data, cch, k, stepOk) ==
    LET ch == ParseChallenge(auth_data) IN
    IF ch.exc # "none" THEN Handled(self, cch, Raise(ch.exc, <<>>))
    ELSE
    LET targetspn == IF ch.isNone THEN None ELSE Some(ch.spn)
        auth_info ==
            IF HasAuthInfo(self)
            THEN [src |-> "auth_info",
                  upn |-> IF ch.isNone THEN self.username
                          ELSE Upn(self.username, ch.realm)]
            ELSE NoCreds
        ca    == NewContext(targetspn, auth_info)
        st    == ProviderStep(ca, k, stepOk)
        calls == << Call("ClientAuth", targetspn, FALSE, FALSE),
                    Call("authorize", None, ca.complete, FALSE) >>
    IN  IF ~st.ok
        THEN Handled([self EXCEPT !.clientauth = ca], cch,
                     Raise("InterfaceError", calls))
        ELSE Handled([self EXCEPT !.clientauth = st.ctx], cch,
                     Outcome("none", TokenRet(st.token), calls))

\* The flag auth_continue returns: the context's, read after the step.
ContinueCompleteStale(before, after) == before.complete

ContinueComplete(before, after) == after.complete

\* The argument of the step: the server's token, as received.
StepArgumentNone(tok) == None

StepArgument(tok) == tok

\* auth_continue(tgt_auth_challenge) of either class, on its context
\* (self.context, self.clientauth). The provider's error is not caught.
ContinueOn(ctx, stepName, tok, k, stepOk) ==
    IF ~ctx.set THEN [ctx |-> ctx, out |-> Raise("AttributeError", <<>>)]
    ELSE
    LET st    == ProviderStep(ctx, k, stepOk)
        calls == << Call(stepName, StepArgument(tok), ctx.complete, FALSE) >>
    IN  IF ~st.ok THEN [ctx |-> ctx, out |-> Raise("GSSError", calls)]
        ELSE [ctx |-> st.ctx,
              out |-> Outcome("none",
                              [kind     |-> "pair", val |-> st.token,
                               complete |-> ContinueComplete(ctx, st.ctx)],
                              calls)]

\* MySQLKerberosAuthPlugin.auth_continue(tgt_auth_challenge)
GssAuthContinue(self, tok, cch, k, stepOk) ==
    LET r == ContinueOn(self.context, "step", tok, k, stepOk) IN
    Handled([self EXCEPT !.context = r.ctx], cch, r.out)

\* MySQLSSPIKerberosAuthPlugin.auth_continue(tgt_auth_challenge)
SspiAuthContinue(self, tok, cch, k, stepOk) ==
    LET r == ContinueOn(self.clientauth, "authorize", tok, k, stepOk) IN
    Handled([self EXCEPT !.clientauth = r.ctx], cch, r.out)

\* if not self.context.complete: raise ProgrammingError (line 304)
CloseRefusedNever(ctx) == FALSE

CloseRefused(ctx) == ~ctx.complete

\* On BadMICError: InterfaceError (lines 311-313).
BadMicIgnored(message) == FALSE

BadMic(message) == ~ProviderUnwrap(message)

\* response = bytearray(b"\x01\x00\x00\00") (line 320)
ClosingResponseEcho(unwrapped) == unwrapped

ClosingResponse(unwrapped) == <<1, 0, 0, 0>>

\* MySQLKerberosAuthPlugin.auth_accept_close_handshake(message)
GssAuthAcceptCloseHandshake(self, message, cch) ==
    LET ctx == self.context IN
    IF ~ctx.set THEN Handled(self, cch, Raise("AttributeError", <<>>))
    ELSE IF CloseRefused(ctx) THEN Handled(self, cch, Raise("ProgrammingError", <<>>))
    ELSE
    LET unwrap == Call("unwrap", Some(message), ctx.complete, FALSE) IN
    IF BadMic(message) THEN Handled(self, cch, Raise("InterfaceError", <<unwrap>>))
    ELSE
    LET response == ClosingResponse(message)
        wrap     == Call("wrap", Some(response), ctx.complete, FALSE)
    IN  Handled(self, cch,
                Outcome("none",
                        [kind     |-> "wrapped",
                         val      |-> Some(ProviderWrap(response, FALSE)),
                         complete |-> FALSE],
                        <<unwrap, wrap>>))

\* ------------------------------------------------------------ state machine

Usernames == { <<>>, UserA, UserB }

Passwords == { "None", "", "pw" }

CcNames == { "unset", "empty" }

Caches ==
    { [status |-> "none", upn |-> <<>>],
      [status |-> "expired", upn |-> Upn(UserA, RealmX)],
      [status |-> "valid", upn |-> Upn(UserA, RealmX)],
      [status |-> "valid", upn |-> Upn(UserA, RealmY)],
      [status |-> "valid", upn |-> UserA] }

\* The first packets of the server the plugins are given: well formed ones,
\* every proper prefix of them, one with a byte too many, one whose spn is not
\* UTF-8.
WellFormed == { EncodeAuthData(SpnS, r) : r \in {RealmX, RealmY} }

Prefixes(b) == { Take(b, n) : n \in 0..(Len(b) - 1) }

Packets ==
    WellFormed
        \cup UNION { Prefixes(b) : b \in WellFormed }
        \cup { EncodeAuthData(SpnS, RealmX) \o <<0>>, <<1, 0, 255, 1, 0, 88>> }

AuthData == { None } \cup { Some(b) : b \in Packets }

\* The server's negotiation tokens.
ServerTokens == { None, Some(<<7>>) }

Messages == GoodMessages \cup { TamperedMessage }

NewPlugin(cls, username, password) ==
    [cls |-> cls, username |-> username, password |-> password,
     context |-> NoContext, clientauth |-> NoContext]

NoCall ==
    [op |-> "none", arg |-> None, exc |-> "none", ret |-> NoRet, calls |-> <<>>]

NoCodec == [src |-> <<>>, packet |-> <<>>, whole |-> FALSE, parsed |-> ParseFail("unset")]

\* Keys and values of the documents; "absent" marks a key the dict has not.
DocKeys == { "_id", "_ID", "a" }

DocValues == { "1", "2" }

Absent == "absent"

Dicts == [DocKeys -> DocValues \cup {Absent}]

EmptyDict == [k \in DocKeys |-> Absent]

\* No document made, no exception asked for.
NoDoc == [made |-> EmptyDict, dict |-> EmptyDict, op |-> "none", index |-> "",
          value |-> "", exc |-> "none", ret |-> "", copy |-> EmptyDict]

NoExn == [asked |-> FALSE, errno |-> 0, msg |-> "None", sqlstate |-> None,
          cls |-> "none", e_errno |-> 0, e_msg |-> "None", e_sqlstate |-> None]

Record(op, arg, out) ==
    [op |-> op, arg |-> arg, exc |-> out.exc, ret |-> out.ret, calls |-> out.calls]

\* One connection, of either class.
Init ==
    /\ \E cls \in {"gssapi", "sspi"}, u \in Usernames, pw \in Passwords :
           plug = [i \in {1} |-> NewPlugin(cls, u, pw)]
    /\ cache \in Caches
    /\ krb5ccname \in CcNames
    /\ rounds \in 1..MaxRounds
    /\ last = [i \in {1} |-> NoCall]
    /\ codec = NoCodec
    /\ doc = NoDoc
    /\ exn = NoExn

ResponseOf(p, d, acqOk, stepOk) ==
    IF plug[p].cls = "gssapi"
    THEN GssAuthResponse(plug[p], d, cache, krb5ccname, rounds, acqOk, stepOk)
    ELSE SspiAuthResponse(plug[p], d, cache, rounds, stepOk)

ContinueOf(p, tok, stepOk) ==
    IF plug[p].cls = "gssapi"
    THEN GssAuthContinue(plug[p], tok, cache, rounds, stepOk)
    ELSE SspiAuthContinue(plug[p], tok, cache, rounds, stepOk)

\* The context kept on the class: every instance of the class sees it.
ApplyShared(p, op, arg, h) ==
    /\ plug' = [q \in DOMAIN plug |->
                   IF q = p THEN h.self
                   ELSE IF plug[q].cls = plug[p].cls
                   THEN [plug[q] EXCEPT !.context = h.self.context,
                                        !.clientauth = h.self.clientauth]
                   ELSE plug[q]]
    /\ cache' = h.cache
    /\ last' = [last EXCEPT ![p] = Record(op, arg, h.out)]
    /\ UNCHANGED <<krb5ccname, rounds, codec, doc, exn>>

\* self.context / self.clientauth are assigned on the instance (lines 240, 418).
Apply(p, op, arg, h) ==
    /\ plug' = [plug EXCEPT ![p] = h.self]
    /\ cache' = h.cache
    /\ last' = [last EXCEPT ![p] = Record(op, arg, h.out)]
    /\ UNCHANGED <<krb5ccname, rounds, codec, doc, exn>>

\* The provider's answers to draw for auth_response(d): both ways where the
\* handler gets as far as the provider, one way (it is never asked) elsewhere.
Answers(asked) == IF asked THEN BOOLEAN ELSE {TRUE}

AsksProvider(cls, d) ==
    LET ch == ParseChallenge(d) IN
    ch.exc = "none" /\ (cls = "sspi" \/ ~ch.isNone)

\* begin: plugin.auth_response(auth_data)
AuthResponse(p) ==
    \E d \in AuthData :
        \E acqOk \in Answers(plug[p].cls = "gssapi" /\ AsksProvider("gssapi", d)),
           stepOk \in Answers(AsksProvider(plug[p].cls, d)) :
            Apply(p, "auth_response", d, ResponseOf(p, d, acqOk, stepOk))

\* continue: plugin.auth_continue(tgt_auth_challenge)
AuthContinue(p) ==
    \E tok \in ServerTokens,
       stepOk \in Answers(plug[p].context.set \/ plug[p].clientauth.set) :
        Apply(p, "auth_continue", tok, ContinueOf(p, tok, stepOk))

\* close: plugin.auth_accept_close_handshake(message), which only
\* MySQLKerberosAuthPlugin defines.
AuthAcceptCloseHandshake(p) ==
    /\ plug[p].cls = "gssapi"
    /\ \E m \in Messages :
           Apply(p, "auth_accept_close_handshake", Some(m),
                 GssAuthAcceptCloseHandshake(plug[p], m, cache))

Begin == \E p \in DOMAIN plug : AuthResponse(p)

Continue == \E p \in DOMAIN plug : AuthContinue(p)

Close == \E p \in DOMAIN plug : AuthAcceptCloseHandshake(p)

Next == Begin \/ Continue \/ Close

Spec == Init /\ [][Next]_vars

\* ------------------------------------------- the two classes, call for call

\* A MySQLKerberosAuthPlugin (1) and a MySQLSSPIKerberosAuthPlugin (2) built
\* with the same username and password.
InitPair ==
    /\ \E u \in Usernames, pw \in Passwords :
           plug = [i \in {1, 2} |->
                      NewPlugin(IF i = 1 THEN "gssapi" ELSE "sspi", u, pw)]
    /\ cache \in Caches
    /\ krb5ccname \in CcNames
    /\ rounds \in 1..MaxRounds
    /\ last = [i \in {1, 2} |-> NoCall]
    /\ codec = NoCodec
    /\ doc = NoDoc
    /\ exn = NoExn

ApplyPair(op, arg, g, s) ==
    /\ plug' = [i \in {1, 2} |-> IF i = 1 THEN g.self ELSE s.self]
    /\ cache' = g.cache
    /\ last' = [i \in {1, 2} |-> Record(op, arg, IF i = 1 THEN g.out ELSE s.out)]
    /\ UNCHANGED <<krb5ccname, rounds, codec, doc, exn>>

\* The same auth_response call on both, the provider answering both alike.
PairBegin ==
    \E d \in AuthData :
        \E acqOk \in Answers(AsksProvider("gssapi", d)),
           stepOk \in Answers(AsksProvider("sspi", d)) :
            ApplyPair("auth_response", d,
                  GssAuthResponse(plug[1], d, cache, krb5ccname, rounds, acqOk, stepOk),
                  SspiAuthResponse(plug[2], d, cache, rounds, stepOk))

\* The same auth_continue call on both.
PairContinue ==
    \E tok \in ServerTokens,
       stepOk \in Answers(plug[1].context.set \/ plug[2].clientauth.set) :
        ApplyPair("auth_continue", tok,
                  GssAuthContinue(plug[1], tok, cache, rounds, stepOk),
                  SspiAuthContinue(plug[2], tok, cache, rounds, stepOk))

NextPair == PairBegin \/ PairContinue

SpecPair == InitPair /\ [][NextPair]_vars

\* ------------------------------------------------- two connections at once

TwoClasses == { <<"gssapi", "gssapi">>, <<"gssapi", "sspi">>, <<"sspi", "sspi">> }

\* Two connections of one process, for users a and b, over the one credential
\* cache of the process; their calls interleave in any order.
InitTwo ==
    /\ \E cls \in TwoClasses, pw \in {"None", "pw"} :
           plug = [i \in {1, 2} |->
                      NewPlugin(cls[i], IF i = 1 THEN UserA ELSE UserB, pw)]
    /\ cache = [status |-> "valid", upn |-> Upn(UserA, RealmX)]
    /\ krb5ccname = "unset"
    /\ rounds \in 1..MaxRounds
    /\ last = [i \in {1, 2} |-> NoCall]
    /\ codec = NoCodec
    /\ doc = NoDoc
    /\ exn = NoExn

\* What the two connections are given: the server's packet for realm X, its
\* token, a message with a valid integrity code.
TwoPacket == Some(EncodeAuthData(SpnS, RealmX))

TwoToken == Some(<<7>>)

TwoMessage == <<10>>

TwoBegin ==
    \E p \in DOMAIN plug :
        \E acqOk \in Answers(plug[p].cls = "gssapi"), stepOk \in BOOLEAN :
            Apply(p, "auth_response", TwoPacket, ResponseOf(p, TwoPacket, acqOk, stepOk))

TwoContinue ==
    \E p \in DOMAIN plug :
        \E stepOk \in Answers(plug[p].context.set \/ plug[p].clientauth.set) :
            Apply(p, "auth_continue", TwoToken, ContinueOf(p, TwoToken, stepOk))

TwoClose ==
    \E p \in DOMAIN plug :
        /\ plug[p].cls = "gssapi"
        /\ Apply(p, "auth_accept_close_handshake", Some(TwoMessage),
                 GssAuthAcceptCloseHandshake(plug[p], TwoMessage, cache))

NextTwo == TwoBegin \/ TwoContinue \/ TwoClose

SpecTwo == InitTwo /\ [][NextTwo]_vars

\* --------------------------------------------------- the packet codec alone

CodecAlphabet == { 88, 115, 233 }

CodecStrings == UNION { [1..n -> CodecAlphabet] : n \in 0..MaxStrLen }

\* A packet built for some (spn, realm).
InitCodec ==
    /\ plug = [i \in {1} |-> NewPlugin("gssapi", <<>>, "None")]
    /\ cache = [status |-> "none", upn |-> <<>>]
    /\ krb5ccname = "unset"
    /\ rounds = 1
    /\ last = [i \in {1} |-> NoCall]
    /\ \E s \in CodecStrings, r \in CodecStrings :
           codec = [src |-> <<s, r>>, packet |-> EncodeAuthData(s, r),
                    whole |-> TRUE, parsed |-> ParseFail("unset")]
    /\ doc = NoDoc
    /\ exn = NoExn

\* The packet loses its tail.
Truncate ==
    /\ codec.whole /\ codec.parsed.exc = "unset"
    /\ \E n \in 0..(Len(codec.packet) - 1) :
           codec' = [codec EXCEPT !.packet = Take(codec.packet, n), !.whole = FALSE]
    /\ UNCHANGED <<plug, cache, krb5ccname, rounds, last, doc, exn>>

\* _parse_auth_data(packet)
Parse ==
    /\ codec.parsed.exc = "unset"
    /\ codec' = [codec EXCEPT !.parsed = ParseAuthData(codec.packet)]
    /\ UNCHANGED <<plug, cache, krb5ccname, rounds, last, doc, exn>>

NextCodec == Truncate \/ Parse

SpecCodec == InitCodec /\ [][NextCodec]_vars

\* ---------------------------------------------------------- mysqlx DbDoc

\* index == "_id"
IsIdNever(index) == FALSE

IsId(index) == index = "_id"

\* What a call on the document gives: its __dict__ afterwards and the outcome.
DocOut(d, exc, ret, copy) == [dict |-> d, exc |-> exc, ret |-> ret, copy |-> copy]

\* DbDoc.__setitem__(index, value)
SetItem(d, index, value) ==
    IF IsId(index) THEN DocOut(d, "ProgrammingError", "", EmptyDict)
    ELSE DocOut([d EXCEPT ![index] = value], "none", "", EmptyDict)

\* DbDoc.__getitem__(index)
GetItem(d, index) ==
    IF d[index] = Absent THEN DocOut(d, "KeyError", "", EmptyDict)
    ELSE DocOut(d, "none", d[index], EmptyDict)

\* Document ids given to copy(): None, "" and two ids.
DocIds == { "None", "", "1", "2" }

\* DbDoc.copy(doc_id): a new DbDoc over a copy of the dict, with doc_id as
\* its _id, or with no _id when doc_id is None or empty.
CopyDoc(d, doc_id) ==
    LET new_dict == IF doc_id \notin {"None", ""} THEN [d EXCEPT !["_id"] = doc_id]
                    ELSE [d EXCEPT !["_id"] = Absent]
    IN  DocOut(d, "none", "", new_dict)

\* DbDoc(value) with a dict (or the dict json.loads gives for a str): the
\* document right after construction.
InitDoc ==
    /\ plug = [i \in {1} |-> NewPlugin("gssapi", <<>>, "None")]
    /\ cache = [status |-> "none", upn |-> <<>>]
    /\ krb5ccname = "unset"
    /\ rounds = 1
    /\ last = [i \in {1} |-> NoCall]
    /\ codec = NoCodec
    /\ exn = NoExn
    /\ \E value \in Dicts : doc = [NoDoc EXCEPT !.made = value, !.dict = value,
                                                !.op = "__init__"]

ApplyDoc(op, index, value, out) ==
    /\ doc' = [doc EXCEPT !.dict = out.dict, !.op = op, !.index = index,
                          !.value = value, !.exc = out.exc, !.ret = out.ret,
                          !.copy = out.copy]
    /\ UNCHANGED <<plug, cache, krb5ccname, rounds, last, codec, exn>>

DocSetItem ==
    \E index \in DocKeys, value \in DocValues :
        ApplyDoc("__setitem__", index, value, SetItem(doc.dict, index, value))

DocGetItem ==
    \E index \in DocKeys : ApplyDoc("__getitem__", index, "", GetItem(doc.dict, index))

DocCopy ==
    \E doc_id \in DocIds : ApplyDoc("copy", "", doc_id, CopyDoc(doc.dict, doc_id))

NextDoc == DocSetItem \/ DocGetItem \/ DocCopy

SpecDoc == InitDoc /\ [][NextDoc]_vars

\* ------------------------------------------- mysqlx get_mysql_exception

\* _ERROR_EXCEPTIONS
ErrorExceptions ==
    { <<1243, "ProgrammingError">>, <<1210, "ProgrammingError">>,
      <<2002, "InterfaceError">>, <<2013, "OperationalError">>,
      <<2049, "NotSupportedError">>, <<2055, "OperationalError">>,
      <<2061, "InterfaceError">> }

\* _SQLSTATE_CLASS_EXCEPTION; a str is the sequence of its characters.
SqlstateClassException ==
    { << <<"0", "2">>, "DataError" >>,        << <<"0", "7">>, "DatabaseError" >>,
      << <<"0", "8">>, "OperationalError" >>, << <<"0", "A">>, "NotSupportedError" >>,
      << <<"2", "1">>, "DataError" >>,        << <<"2", "2">>, "DataError" >>,
      << <<"2", "3">>, "IntegrityError" >>,   << <<"2", "4">>, "ProgrammingError" >>,
      << <<"2", "5">>, "ProgrammingError" >>, << <<"2", "6">>, "ProgrammingError" >>,
      << <<"2", "7">>, "ProgrammingError" >>, << <<"2", "8">>, "ProgrammingError" >>,
      << <<"2", "A">>, "ProgrammingError" >>, << <<"2", "B">>, "DatabaseError" >>,
      << <<"2", "C">>, "ProgrammingError" >>, << <<"2", "D">>, "DatabaseError" >>,
      << <<"2", "E">>, "DatabaseError" >>,    << <<"3", "3">>, "DatabaseError" >>,
      << <<"3", "4">>, "ProgrammingError" >>, << <<"3", "5">>, "ProgrammingError" >>,
      << <<"3", "7">>, "ProgrammingError" >>, << <<"3", "C">>, "ProgrammingError" >>,
      << <<"3", "D">>, "ProgrammingError" >>, << <<"3", "F">>, "ProgrammingError" >>,
      << <<"4", "0">>, "InternalError" >>,    << <<"4", "2">>, "ProgrammingError" >>,
      << <<"4", "4">>, "InternalError" >>,    << <<"H", "Z">>, "OperationalError" >>,
      << <<"X", "A">>, "IntegrityError" >>,   << <<"0", "K">>, "OperationalError" >>,
      << <<"H", "Y">>, "DatabaseError" >> }

\* table[key], with KeyError when the key is not there.
Mapped(table, key) == \E e \in table : e[1] = key

Lookup2(table, key) == (CHOOSE e \in table : e[1] = key)[2]

\* x or -1
OrMinusOne(x) == IF x = 0 THEN -1 ELSE x

\* Error.__init__(msg, errno, values=None, sqlstate) of class cls: the
\* attributes of the exception. The text of a client error (errno 2000..2999,
\* no msg) is kept as "client error".
NewError(cls, msg, errno, sqlstate) ==
    LET e == OrMinusOne(errno) IN
    [cls      |-> cls,
     errno    |-> e,
     msg      |-> IF msg \in {"None", ""}
                  THEN IF 2000 <= e /\ e < 3000 THEN "client error" ELSE "Unknown error"
                  ELSE msg,
     sqlstate |-> sqlstate]

\* get_mysql_exception(errno, msg, sqlstate)
GetMysqlException(errno, msg, sqlstate) ==
    IF Mapped(ErrorExceptions, errno)
    THEN NewError(Lookup2(ErrorExceptions, errno), msg, errno, sqlstate)
    ELSE IF sqlstate.isNone \/ sqlstate.b = <<>>
    THEN NewError("DatabaseError", msg, errno, None)
    ELSE IF Mapped(SqlstateClassException, Take(sqlstate.b, 2))
    THEN NewError(Lookup2(SqlstateClassException, Take(sqlstate.b, 2)),
                  msg, errno, sqlstate)
    ELSE NewError("DatabaseError", msg, errno, sqlstate)

\* Error numbers: listed ones, server and client ones that are not, 0 and -1.
Errnos == { -1, 0, 1064, 1210, 1243, 2000, 2002, 2013, 2049, 2055, 2061 }

Msgs == { "None", "", "m" }

\* SQLSTATE values: none, empty, one character, known and unknown classes.
Sqlstates ==
    { None, Some(<<>>), Some(<<"4">>),
      Some(<<"4", "2", "0", "0", "0">>), Some(<<"2", "3", "0", "0", "0">>),
      Some(<<"0", "8", "S", "0", "1">>), Some(<<"H", "Y", "0", "0", "0">>),
      Some(<<"X", "A", "1", "0", "0">>), Some(<<"9", "9", "9", "9", "9">>),
      Some(<<"h", "y", "0", "0", "0">>) }

InitExn ==
    /\ plug = [i \in {1} |-> NewPlugin("gssapi", <<>>, "None")]
    /\ cache = [status |-> "none", upn |-> <<>>]
    /\ krb5ccname = "unset"
    /\ rounds = 1
    /\ last = [i \in {1} |-> NoCall]
    /\ codec = NoCodec
    /\ doc = NoDoc
    /\ exn = NoExn

\* One call of get_mysql_exception, then another.
CallGetMysqlException ==
    /\ \E errno \in Errnos, msg \in Msgs, sqlstate \in Sqlstates :
           LET e == GetMysqlException(errno, msg, sqlstate) IN
           exn' = [asked |-> TRUE, errno |-> errno, msg |-> msg, sqlstate |-> sqlstate,
                   cls |-> e.cls, e_errno |-> e.errno, e_msg |-> e.msg,
                   e_sqlstate |-> e.sqlstate]
    /\ UNCHANGED <<plug, cache, krb5ccname, rounds, last, codec, doc>>

NextExn == CallGetMysqlException

SpecExn == InitExn /\ [][NextExn]_vars

\* ------------------------------------------------------------------ claims

Plugins == DOMAIN plug

\* The context a plugin negotiates on.
CtxOf(p) == IF plug[p].cls = "gssapi" THEN plug[p].context ELSE plug[p].clientauth

IsOp(rec, name) == \E i \in DOMAIN rec.calls : rec.calls[i].op = name

Protects(rec) == IsOp(rec, "wrap") \/ IsOp(rec, "unwrap")

Steps(rec) == IsOp(rec, "step") \/ IsOp(rec, "authorize")

\* C1: an auth_continue that returns reports complete exactly when the
\* provider's negotiation has reached the step on which it completes: False on
\* every step before that one, never True before the provider.
C1_CompleteWithProvider ==
    \A p \in Plugins :
        (last[p].op = "auth_continue" /\ last[p].exc = "none")
            => (last[p].ret.complete = (CtxOf(p).steps >= rounds))

\* Completion on the third step: the second auth_continue returned True.
C1_Witness ==
    \E p \in Plugins :
        /\ last[p].op = "auth_continue" /\ last[p].exc = "none"
        /\ last[p].ret.complete /\ rounds = 3 /\ CtxOf(p).steps = 3

\* C2: auth_accept_close_handshake on a plugin whose context is not complete
\* (no context yet, or negotiating) raises ProgrammingError and neither wraps
\* nor unwraps.
C2_CloseBeforeCompleteIsProgrammingError ==
    \A p \in Plugins :
        (last[p].op = "auth_accept_close_handshake" /\ ~plug[p].context.complete)
            => (last[p].exc = "ProgrammingError" /\ ~Protects(last[p]))

\* C3: every wrap and every unwrap is made on a complete context.
C3_ProtectOnlyEstablished ==
    \A p \in Plugins : \A i \in DOMAIN last[p].calls :
        last[p].calls[i].op \in {"wrap", "unwrap"} => last[p].calls[i].est

\* A closing round that unwrapped and wrapped.
C3_Witness ==
    \E p \in Plugins : IsOp(last[p], "unwrap") /\ IsOp(last[p], "wrap")

\* C4: a closing round that returns has unwrapped the server's message once,
\* then wrapped once the payload 01 00 00 00 with encrypt = False, and returns
\* that wrapped payload, whatever the server's message was.
C4_ClosingMessage ==
    \A p \in Plugins :
        (last[p].op = "auth_accept_close_handshake" /\ last[p].exc = "none")
            => /\ last[p].calls =
                      << Call("unwrap", last[p].arg, TRUE, FALSE),
                         Call("wrap", Some(<<1, 0, 0, 0>>), TRUE, FALSE) >>
               /\ last[p].ret.kind = "wrapped"
               /\ last[p].ret.val = Some(ProviderWrap(<<1, 0, 0, 0>>, FALSE))

C4_Witness ==
    \E p \in Plugins :
        /\ last[p].op = "auth_accept_close_handshake" /\ last[p].exc = "none"
        /\ last[p].arg = Some(<<11>>)

\* C5: when the unwrap of the server's message fails its integrity check, the
\* closing round raises InterfaceError, returns nothing, wraps nothing and
\* unwraps once only.
C5_BadMicIsFatal ==
    \A p \in Plugins :
        (/\ last[p].op = "auth_accept_close_handshake"
         /\ plug[p].context.complete
         /\ last[p].arg.b \notin GoodMessages)
            => /\ last[p].exc = "InterfaceError"
               /\ last[p].ret = NoRet
               /\ last[p].calls = << Call("unwrap", last[p].arg, TRUE, FALSE) >>

C5_Witness ==
    \E p \in Plugins :
        /\ last[p].op = "auth_accept_close_handshake"
        /\ plug[p].context.complete
        /\ last[p].arg = Some(TamperedMessage)
        /\ IsOp(last[p], "unwrap")

\* C6: after a closing round that returned, the next call on the plugin is
\* rejected and makes no step, wrap or unwrap.
C6_ClosedIsTerminal ==
    [][ \A p \in Plugins :
            (/\ last[p].op = "auth_accept_close_handshake"
             /\ last[p].exc = "none"
             /\ last'[p] # last[p])
                => (last'[p].exc # "none" /\ ~Protects(last'[p]) /\ ~Steps(last'[p]))
      ]_vars

\* C7: auth_response of MySQLKerberosAuthPlugin with no data, or with empty
\* data, returns the password response, calls the provider for nothing
\* (no cache lookup, acquisition, context or step) and leaves the plugin, its
\* context and the cache as they were.
C7_PasswordFallback ==
    [][ \A p \in Plugins :
            (/\ last'[p].op = "auth_response"
             /\ plug[p].cls = "gssapi"
             /\ (last'[p].arg.isNone \/ last'[p].arg.b = <<>>))
                => /\ last'[p].exc = "none"
                   /\ last'[p].ret = PasswordResponse
                   /\ last'[p].calls = <<>>
                   /\ plug'[p] = plug[p]
                   /\ cache' = cache
      ]_vars

\* The fallback on empty data, no context set.
C7_Witness ==
    \E p \in Plugins :
        /\ plug[p].cls = "gssapi"
        /\ last[p].op = "auth_response" /\ last[p].arg = Some(<<>>)
        /\ last[p].ret = PasswordResponse
        /\ ~plug[p].context.set

\* The auth_response of MySQLKerberosAuthPlugin ended in its credential
\* resolver (no cached credentials, or the acquisition failed).
CredentialFailure(rec) ==
    /\ rec.exc # "none" /\ rec.calls # <<>>
    /\ rec.calls[Len(rec.calls)].op
           \in {"Credentials", "acquire_cred_with_password", "get_store"}

\* C8: given the same calls and the same provider answers, the two classes
\* produce the same outcome at each call (error or not, password response or
\* token, the complete flag), credentials permitting.
C8_BackendsAgree ==
    (~CredentialFailure(last[1]))
        => /\ last[1].exc = last[2].exc
           /\ last[1].ret.kind = last[2].ret.kind
           /\ last[1].ret.complete = last[2].ret.complete

\* C9: _parse_auth_data of the packet built for (spn, realm) returns (spn, realm).
C9_RoundTrip ==
    (codec.whole /\ codec.parsed.exc # "unset")
        => codec.parsed = [exc |-> "none", spn |-> codec.src[1], realm |-> codec.src[2]]

\* A parsed packet whose spn has a two-byte character and whose realm is not empty.
C9_Witness ==
    /\ codec.whole /\ codec.parsed.exc = "none"
    /\ codec.src = << <<115, 233>>, <<88>> >>
    /\ codec.parsed.spn = <<115, 233>>

ProperPrefixOfWellFormed(b) == \E w \in WellFormed : b \in Prefixes(w)

\* C10 as stated: auth_response of every proper prefix of a well-formed packet
\* raises the malformed-packet error (InterruptedError).
C10_EveryPrefixRejected ==
    \A p \in Plugins :
        (/\ last[p].op = "auth_response" /\ ~last[p].arg.isNone
         /\ ProperPrefixOfWellFormed(last[p].arg.b))
            => last[p].exc = "InterruptedError"

\* C10 amended: auth_response of every proper prefix that is not empty raises
\* InterruptedError before any provider call, so no spn or realm is used.
C10_NonEmptyPrefixRejected ==
    \A p \in Plugins :
        (/\ last[p].op = "auth_response" /\ ~last[p].arg.isNone
         /\ last[p].arg.b # <<>>
         /\ ProperPrefixOfWellFormed(last[p].arg.b))
            => (last[p].exc = "InterruptedError" /\ last[p].calls = <<>>)

\* A packet cut inside its realm is rejected.
C10_Witness ==
    \E p \in Plugins :
        /\ last[p].op = "auth_response"
        /\ last[p].arg = Some(Take(EncodeAuthData(SpnS, RealmX), 5))
        /\ last[p].exc = "InterruptedError"

\* ------------------------------------------------- claims on the credentials

Gss(p) == plug[p].cls = "gssapi"

CountOp(rec, name) == Cardinality({ i \in DOMAIN rec.calls : rec.calls[i].op = name })

\* The call is an auth_response of a well-formed packet.
BeginsWellFormed(rec) ==
    rec.op = "auth_response" /\ ~rec.arg.isNone /\ rec.arg.b \in WellFormed

\* The realm of the well-formed packet the call was given.
RealmOf(rec) == CHOOSE r \in {RealmX, RealmY} : rec.arg.b = EncodeAuthData(SpnS, r)

\* User and realm of the cached principal ("" when it names no realm).
CachedUser(c) == IF FindAt(c.upn) > 0 THEN Take(c.upn, FindAt(c.upn) - 1) ELSE c.upn

CachedRealm(c) == IF FindAt(c.upn) > 0 THEN Drop(c.upn, FindAt(c.upn)) ELSE <<>>

Acquire == "acquire_cred_with_password"

\* Every acquisition of the call was made for this principal.
AcquiresFor(rec, upn) ==
    \A i \in DOMAIN rec.calls :
        rec.calls[i].op = Acquire => rec.calls[i].arg = Some(upn)

Lookup == Call("Credentials", None, FALSE, FALSE)

\* C11: auth_response of MySQLKerberosAuthPlugin acquires or stores credentials
\* with the password only when a password was given; without one, and the
\* cached credentials missing or expired, it raises InterfaceError having made
\* no acquisition at all.
C11_AcquireOnlyWithPassword ==
    \A p \in Plugins :
        (Gss(p) /\ last[p].op = "auth_response")
            => /\ (IsOp(last[p], Acquire) \/ IsOp(last[p], "store_cred_into"))
                      => plug[p].password # "None"
               /\ (/\ plug[p].password = "None"
                   /\ IsOp(last[p], "Credentials")
                   /\ cache.status # "valid")
                      => /\ last[p].exc = "InterfaceError"
                         /\ last[p].ret = NoRet
                         /\ last[p].calls = <<Lookup>>

\* No password, expired credentials: the lookup, then InterfaceError.
C11_Witness ==
    \E p \in Plugins :
        /\ Gss(p) /\ plug[p].password = "None" /\ plug[p].username = UserA
        /\ cache.status = "expired"
        /\ BeginsWellFormed(last[p])
        /\ last[p].exc = "InterfaceError"
        /\ last[p].calls = <<Lookup>>

\* C12: with no cached credentials and no password, auth_response of a valid
\* challenge raises InterfaceError after the cache lookup alone; the cache and
\* the plugin (its context) are unchanged and no step is made.
C12_UnavailableMutatesNothing ==
    [][ \A p \in Plugins :
            (/\ Gss(p) /\ plug[p].password = "None" /\ cache.status = "none"
             /\ BeginsWellFormed(last'[p]))
                => /\ last'[p].exc = "InterfaceError"
                   /\ last'[p].calls = <<Lookup>>
                   /\ cache' = cache
                   /\ plug' = plug
      ]_vars

C12_Witness ==
    \E p \in Plugins :
        /\ Gss(p) /\ plug[p].password = "None" /\ plug[p].username = UserB
        /\ cache.status = "none"
        /\ BeginsWellFormed(last[p])
        /\ last[p].exc = "InterfaceError"
        /\ ~plug[p].context.set

\* A call that got as far as the credentials, the cache holding none that are valid.
ResolvesInvalid(p) ==
    Gss(p) /\ cache.status # "valid" /\ BeginsWellFormed(last'[p])

\* C13 as stated: with expired or missing cached credentials and a password,
\* credentials are acquired with the password whether or not a username was
\* requested.
C13_ReacquiresWithPassword ==
    [][ \A p \in Plugins :
            (ResolvesInvalid(p) /\ plug[p].password # "None")
                => IsOp(last'[p], Acquire)
      ]_vars

\* C13 amended: with expired or missing cached credentials, one acquisition
\* for username@realm is made when both a password and a username were given,
\* and once it is stored the context is created with the acquired credentials;
\* with no password or no username auth_response raises InterfaceError after
\* the lookup alone and changes nothing.
C13_ReacquiresWithPasswordAndUser ==
    [][ \A p \in Plugins :
            ResolvesInvalid(p)
                => IF plug[p].password # "None" /\ plug[p].username # <<>>
                   THEN LET upn == Upn(plug[p].username, RealmOf(last'[p])) IN
                        /\ CountOp(last'[p], Acquire) = 1
                        /\ AcquiresFor(last'[p], upn)
                        /\ IsOp(last'[p], "store_cred_into")
                              => /\ IsOp(last'[p], "SecurityContext")
                                 /\ plug'[p].context.creds
                                        = [src |-> "password", upn |-> upn]
                   ELSE /\ last'[p].exc = "InterfaceError"
                        /\ last'[p].calls = <<Lookup>>
                        /\ plug' = plug
                        /\ cache' = cache
      ]_vars

\* A password but no username, expired credentials: InterfaceError.
C13_Witness ==
    \E p \in Plugins :
        /\ Gss(p) /\ plug[p].password = "pw" /\ plug[p].username = <<>>
        /\ cache.status = "expired"
        /\ BeginsWellFormed(last[p])
        /\ last[p].exc = "InterfaceError"

\* C14: with valid cached credentials of another user and a password, one
\* auth_response makes exactly one acquisition, for username@realm, whether
\* the cached realm is the challenge's or not.
C14_OneAcquisition ==
    [][ \A p \in Plugins :
            (/\ Gss(p) /\ cache.status = "valid"
             /\ plug[p].username # <<>> /\ plug[p].username # CachedUser(cache)
             /\ plug[p].password # "None"
             /\ BeginsWellFormed(last'[p]))
                => /\ CountOp(last'[p], Acquire) = 1
                   /\ AcquiresFor(last'[p], Upn(plug[p].username, RealmOf(last'[p])))
      ]_vars

\* A mismatch of user or realm that makes auth_response acquire anew.
ForcesAcquisition(p, realm) ==
    /\ plug[p].password # "None"
    /\ \/ plug[p].username # <<>> /\ plug[p].username # CachedUser(cache)
       \/ CachedRealm(cache) # <<>> /\ CachedRealm(cache) # realm

\* C15: the cache changes only in an auth_response that stores acquired
\* credentials; an auth_response that finds valid cached credentials and no
\* mismatch forcing an acquisition initiates the context with them and leaves
\* the cache as it was; auth_continue and auth_accept_close_handshake never
\* change it.
C15_CacheWrittenByAcquisitionOnly ==
    [][ \A p \in Plugins :
            /\ cache' # cache
                  => (last'[p].op = "auth_response" /\ IsOp(last'[p], "store_cred_into"))
            /\ (/\ Gss(p) /\ cache.status = "valid"
                /\ BeginsWellFormed(last'[p])
                /\ ~ForcesAcquisition(p, RealmOf(last'[p])))
                  => /\ cache' = cache
                     /\ ~IsOp(last'[p], Acquire)
                     /\ plug'[p].context.set
                     /\ plug'[p].context.creds = [src |-> "cache", upn |-> cache.upn]
      ]_vars

\* Matching cached credentials used as they are, a password being at hand.
C15_Witness ==
    \E p \in Plugins :
        /\ Gss(p) /\ plug[p].password = "pw" /\ plug[p].username = UserA
        /\ cache = [status |-> "valid", upn |-> Upn(UserA, RealmX)]
        /\ BeginsWellFormed(last[p]) /\ RealmOf(last[p]) = RealmX
        /\ last[p].exc = "none"
        /\ plug[p].context.creds = [src |-> "cache", upn |-> Upn(UserA, RealmX)]

\* An acquisition the provider refused: the store was never looked up after it.
FailedAcquire(rec, i) ==
    /\ rec.calls[i].op = Acquire
    /\ (i = Len(rec.calls) \/ rec.calls[i + 1].op # "get_store")

\* C16: when the provider refuses an acquisition, auth_response raises
\* ProgrammingError and returns nothing; that acquisition is its last provider
\* call (no other attempt, no context, no step) and the plugin is unchanged.
C16_AcquisitionFailureIsFatal ==
    [][ \A p \in Plugins : \A i \in DOMAIN last'[p].calls :
            (Gss(p) /\ last'[p].op = "auth_response" /\ FailedAcquire(last'[p], i))
                => /\ last'[p].exc = "ProgrammingError"
                   /\ last'[p].ret = NoRet
                   /\ i = Len(last'[p].calls)
                   /\ plug' = plug
      ]_vars

C16_Witness ==
    \E p \in Plugins :
        /\ Gss(p) /\ BeginsWellFormed(last[p])
        /\ last[p].exc = "ProgrammingError"
        /\ FailedAcquire(last[p], Len(last[p].calls))
        /\ ~plug[p].context.set

\* C17: with KRB5CCNAME set to "", an acquisition stops at the store lookup,
\* which is made once, with no credentials acquired from the provider with the
\* password and nothing stored.
C17_EmptyStoreFailsFast ==
    \A p \in Plugins :
        (/\ Gss(p) /\ last[p].op = "auth_response"
         /\ krb5ccname = "empty"
         /\ IsOp(last[p], "get_store"))
            => /\ last[p].exc = "InterfaceError"
               /\ CountOp(last[p], "get_store") = 1
               /\ ~IsOp(last[p], Acquire)
               /\ ~IsOp(last[p], "store_cred_into")

\* ---------------------------------------------------- claims on the context

\* C18: a plugin's context, once set, only moves forward: it stays set, its
\* steps never decrease and, once complete, it stays complete.
C18_ContextOnlyForward ==
    [][ \A p \in Plugins :
            CtxOf(p).set
                => /\ CtxOf(p)'.set
                   /\ CtxOf(p)'.steps >= CtxOf(p).steps
                   /\ CtxOf(p).complete => CtxOf(p)'.complete
      ]_vars

Changed(p) == plug'[p] # plug[p] \/ last'[p] # last[p]

\* C19: of two plugins whose calls interleave, no call changes both: a call
\* on one leaves the other's context (its steps, its complete flag, its
\* credentials) and everything else of the other as it was.
C19_ContextsAreIndependent ==
    [][ \A p \in Plugins : \A q \in Plugins \ {p} :
            Changed(p) => (plug'[q] = plug[q] /\ last'[q] = last[q])
      ]_vars

\* Two plugins of one class, one established and closed, the other midway.
C19_Witness ==
    /\ Plugins = {1, 2}
    /\ plug[1].cls = plug[2].cls
    /\ plug[1].context.complete
    /\ last[1].op = "auth_accept_close_handshake" /\ last[1].exc = "none"
    /\ plug[2].context.set /\ ~plug[2].context.complete
    /\ last[2].op = "auth_continue" /\ last[2].exc = "none"
    /\ plug[2].context.steps < plug[1].context.steps

\* The handshake under way with cached credentials and no password.
FromCache(p) ==
    /\ Gss(p) /\ plug[p].password = "None"
    /\ cache.status = "valid"
    /\ plug[p].username \in {<<>>, CachedUser(cache)}

ClosingPayload == <<1, 0, 0, 0>>

\* C20: with no password and valid cached credentials of the user,
\* auth_response of a well-formed packet looks the credentials up, creates the
\* context and makes one step(None), returning its token; each auth_continue
\* before completion makes one step with the server's token as given and
\* returns complete exactly on the provider's last round; the
\* auth_accept_close_handshake after completion returns the wrapped payload
\* that begins with byte 1. Nothing is raised but a failure of the provider's
\* own step.
C20_HandshakeEndToEnd ==
    [][ \A p \in Plugins :
            FromCache(p)
                => /\ BeginsWellFormed(last'[p])
                      => /\ last'[p].calls
                                = << Lookup,
                                     Call("SecurityContext", Some(SpnS), FALSE, FALSE),
                                     Call("step", None, FALSE, FALSE) >>
                         /\ (last'[p].exc = "none") = (CtxOf(p)'.steps = 1)
                         /\ last'[p].exc = "none"
                               => last'[p].ret = TokenRet(Token(1))
                   /\ (/\ last'[p].op = "auth_continue"
                       /\ CtxOf(p).set /\ ~CtxOf(p).complete)
                      => /\ last'[p].calls
                                = << Call("step", last'[p].arg, FALSE, FALSE) >>
                         /\ (last'[p].exc = "none")
                                = (CtxOf(p)'.steps = CtxOf(p).steps + 1)
                         /\ last'[p].exc = "none"
                               => /\ last'[p].ret.kind = "pair"
                                  /\ last'[p].ret.val = Token(CtxOf(p)'.steps)
                                  /\ last'[p].ret.complete
                                         = (CtxOf(p)'.steps = rounds)
                   /\ (/\ last'[p].op = "auth_accept_close_handshake"
                       /\ CtxOf(p).complete
                       /\ last'[p].arg.b \in GoodMessages)
                      => /\ last'[p].exc = "none"
                         /\ last'[p].calls
                                = << Call("unwrap", last'[p].arg, TRUE, FALSE),
                                     Call("wrap", Some(ClosingPayload), TRUE, FALSE) >>
                         /\ last'[p].ret.val
                                = Some(ProviderWrap(ClosingPayload, FALSE))
                         /\ plug' = plug
      ]_vars

\* The whole handshake done: three rounds of the provider, then the close.
C20_Witness ==
    \E p \in Plugins :
        /\ Gss(p) /\ plug[p].password = "None" /\ plug[p].username = UserA
        /\ cache = [status |-> "valid", upn |-> Upn(UserA, RealmX)]
        /\ rounds = 3
        /\ CtxOf(p).steps = 3 /\ CtxOf(p).complete
        /\ CtxOf(p).creds = [src |-> "cache", upn |-> Upn(UserA, RealmX)]
        /\ last[p].op = "auth_accept_close_handshake"
        /\ last[p].exc = "none"
        /\ last[p].ret.val = Some(ProviderWrap(ClosingPayload, FALSE))

\* ------------------------------------------------ claims on errors and order

\* C21: an auth_response whose packet does not parse raises InterruptedError
\* before any provider call (no lookup, acquisition, context or step) and
\* leaves the plugin, its context and the cache as they were.
C21_ParseFailureComesFirst ==
    [][ \A p \in Plugins :
            (/\ last'[p].op = "auth_response"
             /\ ~last'[p].arg.isNone /\ last'[p].arg.b # <<>>
             /\ ParseAuthData(last'[p].arg.b).exc # "none")
                => /\ last'[p].exc = "InterruptedError"
                   /\ last'[p].calls = <<>>
                   /\ plug' = plug
                   /\ cache' = cache
      ]_vars

\* The realm of a principal name: what follows its first "@".
RealmOfUpn(upn) == IF FindAt(upn) > 0 THEN Drop(upn, FindAt(upn)) ELSE <<>>

\* C22: with valid cached credentials of another realm than the packet's and
\* a password, auth_response acquires credentials, and every acquisition is
\* for a principal of the packet's realm, with a username given or not.
C22_AcquiresInChallengeRealm ==
    [][ \A p \in Plugins :
            (/\ Gss(p) /\ cache.status = "valid"
             /\ CachedRealm(cache) # <<>>
             /\ plug[p].password # "None"
             /\ BeginsWellFormed(last'[p])
             /\ CachedRealm(cache) # RealmOf(last'[p]))
                => /\ IsOp(last'[p], Acquire)
                   /\ \A i \in DOMAIN last'[p].calls :
                          last'[p].calls[i].op = Acquire
                              => RealmOfUpn(last'[p].calls[i].arg.b) = RealmOf(last'[p])
      ]_vars

\* C23: a call whose provider step failed (auth_response or auth_continue)
\* raises InterfaceError, having made that one step, and returns nothing.
C23_StepFailureIsInterfaceError ==
    \A p \in Plugins :
        (/\ last[p].op \in {"auth_response", "auth_continue"}
         /\ Steps(last[p]) /\ last[p].exc # "none")
            => /\ last[p].exc = "InterfaceError"
               /\ CountOp(last[p], "step") + CountOp(last[p], "authorize") = 1
               /\ last[p].ret = NoRet

\* C24: auth_continue on a plugin that has no context (no auth_response yet,
\* or one that returned the password response) raises ProgrammingError and
\* makes no provider step.
C24_ContinueBeforeBeginIsProgrammingError ==
    \A p \in Plugins :
        (last[p].op = "auth_continue" /\ ~CtxOf(p).set)
            => (last[p].exc = "ProgrammingError" /\ ~Steps(last[p]))

\* C25: with valid cached credentials of another user than the one given and
\* no password, auth_response acquires nothing and leaves the cache alone: it
\* creates the context with the cached credentials of the cached user and
\* makes the first step, raising nothing unless that step fails.
C25_OtherUsersCacheIsUsed ==
    [][ \A p \in Plugins :
            (/\ Gss(p) /\ cache.status = "valid"
             /\ plug[p].username # <<>> /\ plug[p].username # CachedUser(cache)
             /\ plug[p].password = "None"
             /\ BeginsWellFormed(last'[p]))
                => /\ last'[p].calls
                          = << Lookup,
                               Call("SecurityContext", Some(SpnS), FALSE, FALSE),
                               Call("step", None, FALSE, FALSE) >>
                   /\ cache' = cache
                   /\ CtxOf(p)'.set
                   /\ CtxOf(p)'.creds = [src |-> "cache", upn |-> cache.upn]
                   /\ (last'[p].exc = "none") = (CtxOf(p)'.steps = 1)
                   /\ last'[p].exc = "none" => last'[p].ret = TokenRet(Token(1))
      ]_vars

\* User b, no password, the cache of a@X: the token of the first step.
C25_Witness ==
    \E p \in Plugins :
        /\ Gss(p) /\ plug[p].username = UserB /\ plug[p].password = "None"
        /\ cache = [status |-> "valid", upn |-> Upn(UserA, RealmX)]
        /\ BeginsWellFormed(last[p])
        /\ last[p].exc = "none" /\ last[p].ret = TokenRet(Token(1))
        /\ CtxOf(p).creds = [src |-> "cache", upn |-> Upn(UserA, RealmX)]

\* ------------------------------------------------------- claims on mysqlx

\* C26: the document's _id stays what it was at construction; a __setitem__
\* with index "_id" raises ProgrammingError and leaves the whole dict as it
\* was, one with another index returns and changes that key alone.
C26_IdIsKept ==
    [][ doc'.op = "__setitem__"
            => /\ doc.dict["_id"] = doc.made["_id"]
               /\ doc'.dict["_id"] = doc.made["_id"]
               /\ doc'.made = doc.made
               /\ IF doc'.index = "_id"
                  THEN doc'.exc = "ProgrammingError" /\ doc'.dict = doc.dict
                  ELSE /\ doc'.exc = "none"
                       /\ \A k \in DocKeys :
                              doc'.dict[k] = IF k = doc'.index THEN doc'.value
                                             ELSE doc.dict[k]
      ]_vars

\* Other keys were assigned, then "_id" was tried: refused, _id as made.
C26_Witness ==
    /\ doc.op = "__setitem__" /\ doc.index = "_id" /\ doc.value = "2"
    /\ doc.exc = "ProgrammingError"
    /\ doc.made["_id"] = "1" /\ doc.dict["_id"] = "1"
    /\ doc.dict["_ID"] = "2" /\ doc.made["_ID"] = Absent

\* C27: get_mysql_exception returns an exception of the class listed for the
\* errno when it is listed; else of the class listed for the first two
\* characters of the SQLSTATE; else DatabaseError; and the exception carries
\* the errno given.
C27_ErrnoThenSqlstateClass ==
    exn.asked
        => /\ exn.cls =
                  IF Mapped(ErrorExceptions, exn.errno)
                  THEN Lookup2(ErrorExceptions, exn.errno)
                  ELSE IF /\ ~exn.sqlstate.isNone
                          /\ Mapped(SqlstateClassException, Take(exn.sqlstate.b, 2))
                  THEN Lookup2(SqlstateClassException, Take(exn.sqlstate.b, 2))
                  ELSE "DatabaseError"
           /\ exn.e_errno = exn.errno

====
